---- MODULE Spec2Model ----
(***************************************************************************)
(* Model of the OCR service of main.py: the Flask handlers ocr and         *)
(* get_status, the background task run_ocr_in_background, the shared       *)
(* result map ocr_results, and the pure helpers allowed_file, format_date  *)
(* and the line classifier.                                                *)
(*                                                                         *)
(* A Python str is a sequence of characters; a character is a one-element  *)
(* token.  Latin characters, digits and punctuation stand for themselves;  *)
(* an Arabic letter is written by its Unicode name ("THAL", "KAF", ...)    *)
(* and the Arabic-Indic digit three by "ARABIC-INDIC THREE".               *)
(***************************************************************************)
EXTENDS Integers, Sequences, FiniteSets, TLC

VARIABLES
    ocr_results,        \* the dict ocr_results: task_id string -> entry
    disk,               \* UPLOAD_FOLDER: file_path -> content last saved there
    req,                \* the POST /ocr requests received so far, in arrival order
    task,               \* per request: the background task submitted for it
    last_get,           \* the last GET /ocr/status request and its answer
    text_results,       \* classifier run: the OCR text being classified
    todo,               \* classifier run: lines of the for loop still to visit
    lines_with_numbers, \* classifier run: the list lines_with_numbers
    lines_with_strings, \* classifier run: the list lines_with_strings
    date_in,           \* format_date run: the argument of the first call
    date_out,           \* format_date run: the value returned by the last call
    applied             \* format_date run: the number of calls made

vars == <<ocr_results, disk, req, task, last_get,
          text_results, todo, lines_with_numbers, lines_with_strings,
          date_in, date_out, applied>>

svc_vars == <<ocr_results, disk, req, task, last_get>>
cls_vars == <<text_results, todo, lines_with_numbers, lines_with_strings>>
fmt_vars == <<date_in, date_out, applied>>

-----------------------------------------------------------------------------
(* Bounds *)

MaxRequests == 2        \* POST /ocr requests per behaviour
MaxLines == 2           \* lines per OCR text in a classifier run
MaxDateLen == 8         \* length of the strings given to format_date

-----------------------------------------------------------------------------
(* Strings *)

NL == "\n"

\* characters c with c.isdigit()
DigitChars == {"0", "1", "2", "3", "4", "5", "6", "7", "8", "9",
               "ARABIC-INDIC THREE"}

\* characters removed by str.strip()
SpaceChars == {" ", "\t", "\r", NL}

isdigit(c) == c \in DigitChars

\* str.isdigit(): non-empty and every character a digit
str_isdigit(s) == Len(s) > 0 /\ \A i \in 1..Len(s) : isdigit(s[i])

\* str.lower() of one character
lower_char(c) ==
    CASE c = "J" -> "j" [] c = "P" -> "p" [] c = "G" -> "g"
      [] c = "E" -> "e" [] c = "N" -> "n" [] c = "I" -> "i"
      [] c = "F" -> "f" [] c = "R" -> "r"
      [] OTHER -> c

lower(s) == [i \in 1..Len(s) |-> lower_char(s[i])]

\* needle in s, for strings
contains(s, needle) ==
    \E i \in 0..(Len(s) - Len(needle)) :
        SubSeq(s, i + 1, i + Len(needle)) = needle

\* s.split(sep) for a one-character separator
RECURSIVE split(_, _)
split(s, sep) ==
    IF \E i \in 1..Len(s) : s[i] = sep
    THEN LET i == CHOOSE k \in 1..Len(s) :
                      s[k] = sep /\ \A j \in 1..(k - 1) : s[j] # sep
         IN  <<SubSeq(s, 1, i - 1)>> \o split(SubSeq(s, i + 1, Len(s)), sep)
    ELSE <<s>>

\* s.rsplit(sep, 1)[1], defined when sep is in s
rsplit1(s, sep) ==
    LET i == CHOOSE k \in 1..Len(s) :
                 s[k] = sep /\ \A j \in (k + 1)..Len(s) : s[j] # sep
    IN  SubSeq(s, i + 1, Len(s))

\* s.strip()
RECURSIVE strip(_)
strip(s) ==
    IF Len(s) = 0 THEN s
    ELSE IF s[1] \in SpaceChars THEN strip(Tail(s))
    ELSE IF s[Len(s)] \in SpaceChars THEN strip(SubSeq(s, 1, Len(s) - 1))
    ELSE s

\* ''.join(lines) with sep between the lines
RECURSIVE join(_, _)
join(lines, sep) ==
    IF Len(lines) = 0 THEN <<>>
    ELSE IF Len(lines) = 1 THEN lines[1]
    ELSE lines[1] \o <<sep>> \o join(Tail(lines), sep)

\* str(n) for n >= 0
DecimalDigit(d) == CASE d = 0 -> "0" [] d = 1 -> "1" [] d = 2 -> "2"
                     [] d = 3 -> "3" [] d = 4 -> "4" [] d = 5 -> "5"
                     [] d = 6 -> "6" [] d = 7 -> "7" [] d = 8 -> "8"
                     [] d = 9 -> "9"
RECURSIVE str(_)
str(n) == IF n < 10 THEN <<DecimalDigit(n)>>
          ELSE str(n \div 10) \o <<DecimalDigit(n % 10)>>

-----------------------------------------------------------------------------
(* allowed_file and format_date *)

ALLOWED_EXTENSIONS == {<<"j", "p", "g">>, <<"j", "p", "e", "g">>, <<"p", "n", "g">>}

\* allowed_file comparing the extension without lower()
allowed_file_case_sensitive(filename) ==
    /\ contains(filename, <<".">>)
    /\ rsplit1(filename, ".") \in ALLOWED_EXTENSIONS

allowed_file(filename) ==
    /\ contains(filename, <<".">>)
    /\ lower(rsplit1(filename, ".")) \in ALLOWED_EXTENSIONS

\* format_date without the isdigit() test
format_date_any_8(date_str) ==
    IF Len(date_str) = 8
    THEN SubSeq(date_str, 1, 4) \o <<"/">> \o SubSeq(date_str, 5, 6)
             \o <<"/">> \o SubSeq(date_str, 7, Len(date_str))
    ELSE date_str

\* format_date reordering the fields without separators (DDMMYYYY)
format_date_reordered(date_str) ==
    IF Len(date_str) = 8 /\ str_isdigit(date_str)
    THEN SubSeq(date_str, 7, Len(date_str)) \o SubSeq(date_str, 5, 6)
             \o SubSeq(date_str, 1, 4)
    ELSE date_str

format_date(date_str) ==
    IF Len(date_str) = 8 /\ str_isdigit(date_str)
    THEN SubSeq(date_str, 1, 4) \o <<"/">> \o SubSeq(date_str, 5, 6)
             \o <<"/">> \o SubSeq(date_str, 7, Len(date_str))
    ELSE date_str

-----------------------------------------------------------------------------
(* The classifier: the for loop of run_ocr_in_background *)

filter_phrases == <<
    <<"R", "h", ":">>,
    <<"BEH", "TAH", "ALEF", "QAF", "TEH MARBUTA">>,
    <<"ALEF", "LAM", "DAL", "YEH", "MEEM", "QAF", "REH", "ALEF", "TAH", "YEH", "TEH MARBUTA">>,
    <<"ALEF", "LAM", "JEEM", "MEEM", "HEH", "WAW", "REH", "YEH", "TEH MARBUTA">>,
    <<"SEEN", "LAM", "TAH", "TEH MARBUTA">>,
    <<"TEH", "ALEF", "REH", "REH", "KHAH">>,
    <<"ALEF", "LAM", "TEH", "AIN", "REH", "YEH", "FEH">>,
    <<"ALEF", "LAM", "LAM", "QAF", "BEH">>,
    <<"BEH", "LAM", "DAL", "YEH", "TEH MARBUTA">>,
    <<"TEH", "ALEF", "REH", "YEH", "KHAH">>,
    <<":">>,
    <<"ALEF", "LAM", "JEEM", "NOON", "SEEN">>,
    <<"ALEF", "YEH WITH HAMZA ABOVE", "REH", "YEH", "TEH MARBUTA">>,
    <<"ALEF", "LAM", "ALEF WITH HAMZA BELOW", "SEEN", "MEEM">>,
    <<"MEEM", "KAF", "ALEF", "NOON">> >>

SexMarker == <<"THAL", "KAF", "REH">>

\* ''.join(char for char in line if char.isdigit())
numbers_in_line(line) == SelectSeq(line, isdigit)

\* the numeric branch with "> 8" for ">= 8"
numeric_branch_strict(line) ==
    LET d == numbers_in_line(line) IN
    IF Len(d) = 18 THEN <<d>>
    ELSE IF Len(d) > 8 THEN <<format_date(d)>>
    ELSE <<>>

\* the entries the numeric branch appends for a stripped line
numeric_branch(line) ==
    LET d == numbers_in_line(line) IN
    IF Len(d) = 18 THEN <<d>>
    ELSE IF Len(d) >= 8 THEN <<format_date(d)>>
    ELSE <<>>

\* the text branch without the inner length test
text_branch_no_marker(line) ==
    IF /\ Len(line) >= 3
       /\ ~ \E p \in 1..Len(filter_phrases) : contains(line, filter_phrases[p])
    THEN <<line>>
    ELSE <<>>

\* the entries the text branch appends for a stripped line
text_branch(line) ==
    IF /\ Len(line) >= 3
       /\ ~ \E p \in 1..Len(filter_phrases) : contains(line, filter_phrases[p])
    THEN IF Len(line) > 3 \/ line = SexMarker THEN <<line>> ELSE <<>>
    ELSE <<>>

\* one iteration of the loop body on a raw line: what it appends to each list
classify_line(raw) ==
    LET line == strip(raw) IN
    IF \E i \in 1..Len(line) : isdigit(line[i])
    THEN [numbers |-> numeric_branch(line), strings |-> <<>>]
    ELSE [numbers |-> <<>>, strings |-> text_branch(line)]

\* the whole loop over text_results.split('\n')
RECURSIVE classify_lines(_)
classify_lines(lines) ==
    IF Len(lines) = 0 THEN [numbers |-> <<>>, strings |-> <<>>]
    ELSE LET h == classify_line(lines[1])
             t == classify_lines(Tail(lines))
         IN  [numbers |-> h.numbers \o t.numbers, strings |-> h.strings \o t.strings]

classify(text) == classify_lines(split(text, NL))

-----------------------------------------------------------------------------
(* secure_filename, as far as the file names of the model exercise it *)

SafeChars == {"a", "b", "g", "i", "f", "j", "p", "n", "J", "P", "G", ".", "_", "-"}

\* path separators become spaces, then whitespace runs are joined by "_"
RECURSIVE words(_)
words(s) ==
    IF Len(s) = 0 THEN <<>>
    ELSE IF s[1] \in SpaceChars \cup {"/"} THEN words(Tail(s))
    ELSE LET n == CHOOSE k \in 1..Len(s) :
                      /\ \A j \in 1..k : s[j] \notin SpaceChars \cup {"/"}
                      /\ (k = Len(s) \/ s[k + 1] \in SpaceChars \cup {"/"})
         IN  <<SubSeq(s, 1, n)>> \o words(SubSeq(s, n + 1, Len(s)))

RECURSIVE strip_dots(_)
strip_dots(s) ==
    IF Len(s) = 0 THEN s
    ELSE IF s[1] \in {".", "_"} THEN strip_dots(Tail(s))
    ELSE IF s[Len(s)] \in {".", "_"} THEN strip_dots(SubSeq(s, 1, Len(s) - 1))
    ELSE s

safe_char(c) == c \in SafeChars

secure_filename(filename) ==
    strip_dots(SelectSeq(join(words(filename), "_"), safe_char))

UPLOAD_FOLDER == <<".", "/", "u", "p", "l", "o", "a", "d", "s">>

\* os.path.join(UPLOAD_FOLDER, filename)
path_join(folder, filename) == folder \o <<"/">> \o filename

-----------------------------------------------------------------------------
(* Uploads: what a request carries *)

\* An uploaded file's content: whether cv2.imread decodes it, the decoded
\* shape (rows, columns), and what the OCR engine does on its region of
\* interest: raise with a message, or return a text.
NotAnImage == [decodable |-> FALSE, shape |-> <<0, 0>>, raises |-> FALSE, out |-> <<>>]

TextA == <<"a", "b", "c", "d", NL, " ", "1", "9", "9", "0", "0", "1", "0", "1">>
TextB == <<"THAL", "KAF", "REH">>

ImageA == [decodable |-> TRUE, shape |-> <<3, 4>>, raises |-> FALSE, out |-> TextA]
ImageWide == [decodable |-> TRUE, shape |-> <<1, 201>>, raises |-> FALSE, out |-> TextB]
ImageBad == [decodable |-> TRUE, shape |-> <<3, 4>>, raises |-> TRUE,
              out |-> <<"t", "e", "s", "s">>]

\* the multipart requests clients send: with or without a file part
NoFilePart == [has_file |-> FALSE, filename |-> <<>>, content |-> NotAnImage]

Upload(filename, content) == [has_file |-> TRUE, filename |-> filename, content |-> content]

NameA == <<"a", ".", "p", "n", "g">>
NameASlash == <<"/", "a", ".", "p", "n", "g">>
NameB == <<"b", ".", "J", "P", "G">>
NameGif == <<"a", ".", "g", "i", "f">>
NameNoDot == <<"p", "n", "g">>

Requests ==
    {NoFilePart, Upload(<<>>, ImageA), Upload(NameGif, ImageA), Upload(NameNoDot, ImageA),
     Upload(NameASlash, ImageA), Upload(NameA, NotAnImage),
     Upload(NameB, ImageBad), Upload(NameB, ImageWide)}

\* the task ids a client asks GET /ocr/status for
StatusIds == {str(1), str(2), <<"0", "1">>}

-----------------------------------------------------------------------------
(* The service *)

\* A task: its lifecycle status, its arguments, where its function stands
\* ("imread" at line 31, "preprocess" at line 36, "end" once it has returned or
\* raised), the image it read, and what it did so far: whether it called the
\* OCR engine, whether it ran the classifier loop, how often it wrote ocr_results.
NoTask == [status |-> "NONE", file_path |-> <<>>, task_id |-> <<>>, at |-> "none",
           img |-> NotAnImage, ocr_called |-> FALSE, classified |-> FALSE, stores |-> 0]

SvcInit ==
    /\ ocr_results = <<>>
    /\ disk = <<>>
    /\ req = <<>>
    /\ task = <<>>
    /\ last_get = [task_id |-> <<>>, code |-> 0, body |-> <<>>]

\* no format_date run
FmtIdle ==
    /\ date_in = <<>>
    /\ date_out = <<>>
    /\ applied = 0

Init ==
    /\ SvcInit
    /\ text_results = <<>>
    /\ todo = <<>>
    /\ lines_with_numbers = <<>>
    /\ lines_with_strings = <<>>
    /\ FmtIdle

\* bool(request.files['file']): a FileStorage is truthy iff its filename is non-empty
file_truthy(filename) == Len(filename) > 0

\* ocr, lines 84-98: a request arrives, is validated and its file is saved
ocr_receive(request) ==
    /\ Len(req) < MaxRequests
    /\ LET has_file == request.has_file
           filename == request.filename
           content  == request.content
           rejected(error) ==
               /\ req' = Append(req, [has_file |-> has_file, filename |-> filename,
                                      content |-> content, pc |-> "done",
                                      file_path |-> <<>>, task_id |-> <<>>,
                                      code |-> 400, error |-> error])
               /\ disk' = disk
       IN
       IF ~ has_file \/ ~ file_truthy(filename)
       THEN rejected("No file uploaded")
       ELSE IF ~ allowed_file(filename)
       THEN rejected("Invalid file type. Only jpg, jpeg, and png allowed.")
       ELSE LET file_path == path_join(UPLOAD_FOLDER, secure_filename(filename)) IN
            /\ req' = Append(req, [has_file |-> has_file, filename |-> filename,
                                   content |-> content, pc |-> "submit",
                                   file_path |-> file_path, task_id |-> <<>>,
                                   code |-> 0, error |-> ""])
            /\ disk' = (file_path :> content) @@ disk
    /\ task' = Append(task, NoTask)
    /\ UNCHANGED <<ocr_results, last_get, cls_vars, fmt_vars>>

\* len(ocr_results)
len_results == Cardinality(DOMAIN ocr_results)

\* the task id counted from 0: str(len(ocr_results))
new_task_id_from_zero == str(len_results)

\* ocr, line 101
new_task_id == str(len_results + 1)

\* ocr, lines 100-105: the task id is generated and the task is submitted
\* to a new single-worker executor
ocr_submit(r) ==
    /\ req[r].pc = "submit"
    /\ req' = [req EXCEPT ![r].task_id = new_task_id, ![r].pc = "respond"]
    /\ task' = [task EXCEPT ![r] = [NoTask EXCEPT !.status = "SUBMITTED",
                                                  !.file_path = req[r].file_path,
                                                  !.task_id = new_task_id,
                                                  !.at = "queue"]]
    /\ UNCHANGED <<ocr_results, disk, last_get, cls_vars, fmt_vars>>

\* ocr answering only once the task is over (executor.shutdown(wait=True))
ocr_respond_waits(r) ==
    /\ req[r].pc = "respond"
    /\ task[r].status \in {"COMPLETED", "FAILED", "RAISED"}
    /\ req' = [req EXCEPT ![r].code = 202, ![r].pc = "done"]
    /\ UNCHANGED <<ocr_results, disk, task, last_get, cls_vars, fmt_vars>>

\* ocr, line 108: the 202 response
ocr_respond(r) ==
    /\ req[r].pc = "respond"
    /\ req' = [req EXCEPT ![r].code = 202, ![r].pc = "done"]
    /\ UNCHANGED <<ocr_results, disk, task, last_get, cls_vars, fmt_vars>>

FailedToRead == [error |-> <<"Failed to read image. Please upload a valid image.">>]

\* cv2.imread(file_path): the content at file_path now
imread(file_path) == IF file_path \in DOMAIN disk THEN disk[file_path] ELSE NotAnImage

\* the worker thread of the request's executor takes the task from the
\* executor's queue and calls run_ocr_in_background (line 29)
task_pickup(r) ==
    /\ task[r].status = "SUBMITTED"
    /\ task' = [task EXCEPT ![r].status = "PROCESSING", ![r].at = "imread"]
    /\ UNCHANGED <<ocr_results, disk, req, last_get, cls_vars, fmt_vars>>

\* run_ocr_in_background, lines 30-34: the image is read
task_start(r) ==
    /\ task[r].status = "PROCESSING"
    /\ task[r].at = "imread"
    /\ LET img == imread(task[r].file_path) IN
       IF ~ img.decodable
       THEN /\ ocr_results' = (task[r].task_id :> FailedToRead) @@ ocr_results
            /\ task' = [task EXCEPT ![r].status = "FAILED", ![r].at = "end",
                                    ![r].img = img, ![r].stores = @ + 1]
       ELSE /\ ocr_results' = ocr_results
            /\ task' = [task EXCEPT ![r].at = "preprocess", ![r].img = img]
    /\ UNCHANGED <<disk, req, last_get, cls_vars, fmt_vars>>

\* line 40: the height passed to cv2.resize, int(100 * rows / columns)
resized_height(img) == (100 * img.shape[1]) \div img.shape[2]

\* cv2.resize raises when the target size has a zero dimension
resize_raises(img) == resized_height(img) = 0

\* lines 46-81: what the task stores for a decoded and preprocessed image
result_of(img) ==
    IF img.raises
    THEN [error |-> <<"OCR processing failed: ">> \o <<img.out>>]
    ELSE LET c == classify(img.out) IN
         [lines_with_numbers |-> c.numbers, lines_with_strings |-> c.strings]

\* run_ocr_in_background, lines 36-81: preprocessing, OCR, classification, store
task_finish(r) ==
    /\ task[r].status = "PROCESSING"
    /\ task[r].at = "preprocess"
    /\ IF resize_raises(task[r].img)
       THEN \* the exception leaves the function; the executor keeps it in the
            \* future nobody reads
            /\ task' = [task EXCEPT ![r].status = "RAISED", ![r].at = "end"]
            /\ ocr_results' = ocr_results
       ELSE /\ ocr_results' = (task[r].task_id :> result_of(task[r].img)) @@ ocr_results
            /\ task' = [task EXCEPT ![r].status =
                                        IF task[r].img.raises THEN "FAILED" ELSE "COMPLETED",
                                    ![r].at = "end",
                                    ![r].ocr_called = TRUE,
                                    ![r].classified = ~ task[r].img.raises,
                                    ![r].stores = @ + 1]
    /\ UNCHANGED <<disk, req, last_get, cls_vars, fmt_vars>>

\* get_status without the 'error' test
status_answer_error_as_ok(task_id) ==
    IF task_id \notin DOMAIN ocr_results
    THEN [task_id |-> task_id, code |-> 404, body |-> [error |-> <<"Task not found">>]]
    ELSE [task_id |-> task_id, code |-> 200, body |-> ocr_results[task_id]]

\* get_status, lines 111-122: the answer for task_id
status_answer(task_id) ==
    IF task_id \notin DOMAIN ocr_results
    THEN [task_id |-> task_id, code |-> 404, body |-> [error |-> <<"Task not found">>]]
    ELSE LET result == ocr_results[task_id] IN
         IF "error" \in DOMAIN result
         THEN [task_id |-> task_id, code |-> 400, body |-> [error |-> result.error]]
         ELSE [task_id |-> task_id, code |-> 200, body |-> result]

get_status(task_id) ==
    /\ last_get' = status_answer(task_id)
    /\ UNCHANGED <<ocr_results, disk, req, task, cls_vars, fmt_vars>>

Next ==
    \/ \E request \in Requests : ocr_receive(request)
    \/ \E r \in 1..Len(req) : ocr_submit(r)
    \/ \E r \in 1..Len(req) : ocr_respond(r)
    \/ \E r \in 1..Len(req) : task_pickup(r)
    \/ \E r \in 1..Len(req) : task_start(r)
    \/ \E r \in 1..Len(req) : task_finish(r)
    \/ \E task_id \in StatusIds : get_status(task_id)

Spec == Init /\ [][Next]_vars

-----------------------------------------------------------------------------
(* A run of the classifier alone, on OCR texts of up to MaxLines lines *)

D7 == <<"1", "2", "3", "4", "5", "6", "7">>
D8 == <<"1", "9", "9", "0", "0", "1", "0", "1">>
D9 == D8 \o <<"5">>
D17 == D8 \o D9
D18 == D9 \o D9
D19 == D9 \o D9 \o <<"0">>
A8 == [i \in 1..8 |-> "ARABIC-INDIC THREE"]

Date == <<"TEH", "ALEF", "REH", "YEH", "KHAH">>
CardLabel == <<"BEH", "TAH", "ALEF", "QAF", "TEH MARBUTA", " ",
               "ALEF", "LAM", "TEH", "AIN", "REH", "YEH", "FEH">>

TestLines == {
    \* lines with digits
    D18, D8, D7, D9, D17, D19, A8,
    Date \o <<" ">> \o D8,
    <<"I", "D", " ">> \o D9 \o <<" ">> \o D9 \o <<"\r">>,
    <<"a", "b", "c", "d", "1">>,
    <<"a", "b", ":", "1", "2", "3", "4", "5", "6", "7", "8">>,
    \* lines without digits
    <<>>,
    <<" ">>,
    SexMarker,
    <<" ", " ">> \o SexMarker \o <<"\r">>,
    <<"a", "b", "c">>,
    <<"a", "b">>,
    <<"a", " ", "b">>,
    <<"a", "b", "c", "d">>,
    <<"\t", "a", "b", "c", "d", " ">>,
    <<" ", "a", "b", "c", " ">>,
    CardLabel,
    <<"a", "b", ":", "c", "d">>,
    <<"x", "MEEM", "KAF", "ALEF", "NOON", "y">>,
    <<"MEEM", "KAF", "ALEF">>,
    <<"MEEM", "KAF", "ALEF", "REH">> }

\* the texts of 1..MaxLines lines
RECURSIVE TextsOf(_)
TextsOf(n) ==
    IF n = 1 THEN TestLines
    ELSE LET shorter == TextsOf(n - 1) IN
         shorter \cup {t \o <<NL>> \o l : t \in shorter, l \in TestLines}

InitClassifier ==
    /\ SvcInit
    /\ text_results \in TextsOf(MaxLines)
    /\ todo = split(text_results, NL)
    /\ lines_with_numbers = <<>>
    /\ lines_with_strings = <<>>
    /\ FmtIdle

\* the loop inserting at the front of the lists instead of appending
classify_next_line_prepend ==
    /\ todo # <<>>
    /\ LET c == classify_line(Head(todo)) IN
       /\ lines_with_numbers' = c.numbers \o lines_with_numbers
       /\ lines_with_strings' = c.strings \o lines_with_strings
    /\ todo' = Tail(todo)
    /\ UNCHANGED <<text_results, svc_vars, fmt_vars>>

\* run_ocr_in_background, lines 63-75: one iteration of the for loop
classify_next_line ==
    /\ todo # <<>>
    /\ LET c == classify_line(Head(todo)) IN
       /\ lines_with_numbers' = lines_with_numbers \o c.numbers
       /\ lines_with_strings' = lines_with_strings \o c.strings
    /\ todo' = Tail(todo)
    /\ UNCHANGED <<text_results, svc_vars, fmt_vars>>

NextClassifier == classify_next_line

SpecClassifier == InitClassifier /\ [][NextClassifier]_vars

-----------------------------------------------------------------------------
(* A run of format_date alone: two calls, the second on the first's result *)

D12345678 == <<"1", "2", "3", "4", "5", "6", "7", "8">>

DateChars == {"1", "/", "x"}

DateInputs ==
    UNION {[1..n -> DateChars] : n \in 0..MaxDateLen}
        \cup {D7, D8, D9, D18, A8, D12345678,
              <<"1", "9", "9", "0", "/", "0", "1", "/", "0", "1">>}

InitFormatDate ==
    /\ SvcInit
    /\ text_results = <<>>
    /\ todo = <<>>
    /\ lines_with_numbers = <<>>
    /\ lines_with_strings = <<>>
    /\ date_in \in DateInputs
    /\ date_out = <<>>
    /\ applied = 0

\* format_date(date_in), then format_date of what it returned
call_format_date ==
    /\ applied < 2
    /\ date_out' = format_date(IF applied = 0 THEN date_in ELSE date_out)
    /\ applied' = applied + 1
    /\ UNCHANGED <<date_in, svc_vars, cls_vars>>

NextFormatDate == call_format_date

SpecFormatDate == InitFormatDate /\ [][NextFormatDate]_vars

-----------------------------------------------------------------------------
(* Properties *)

Reqs == 1..Len(req)

IsError(entry) == "error" \in DOMAIN entry

Stored(r) == task[r].status \in {"COMPLETED", "FAILED"}
Over(r) == task[r].status \in {"COMPLETED", "FAILED", "RAISED"}

\* C1: no two accepted submissions (answered 202) are given the same task_id.
C1_UniqueTaskIds ==
    \A r1, r2 \in Reqs :
        (r1 # r2 /\ req[r1].code = 202 /\ req[r2].code = 202)
            => req[r1].task_id # req[r2].task_id

\* what a submission's own document yields: the entry its task is to store
OwnResult(r) ==
    IF ~ req[r].content.decodable THEN FailedToRead ELSE result_of(req[r].content)

\* C2: once the task of an accepted submission has stored its result, GET
\* /ocr/status/<task_id> with the task_id returned for that submission answers
\* with the result computed from that submission's own document.
C2_OwnResultRetrievable ==
    \A r \in Reqs :
        (req[r].code = 202 /\ Stored(r))
            => status_answer(req[r].task_id).body = OwnResult(r)

\* C3: a GET /ocr/status/<task_id> answers 404 exactly when nothing is stored
\* under task_id, 400 exactly when the stored entry is an error, 200 with the
\* stored field lists otherwise, and leaves the result map unchanged.
C3_StatusAnswer ==
    [][last_get' # last_get =>
        LET id == last_get'.task_id
            code == last_get'.code
        IN  /\ code \in {200, 400, 404}
            /\ code = 404 <=> id \notin DOMAIN ocr_results
            /\ code = 400 <=> (id \in DOMAIN ocr_results /\ IsError(ocr_results[id]))
            /\ code = 400 => last_get'.body = [error |-> ocr_results[id].error]
            /\ code = 200 => last_get'.body = ocr_results[id]
            /\ ocr_results' = ocr_results]_vars

C3_Witness ==
    /\ last_get.code = 400
    /\ last_get.task_id \in DOMAIN ocr_results
    /\ IsError(ocr_results[last_get.task_id])

\* C4: a task that is over has an entry stored under its task_id, and a task
\* that ended because a stage raised has reached FAILED with an error entry.
C4_EveryTaskStores ==
    \A r \in Reqs :
        Over(r) => /\ task[r].status \in {"COMPLETED", "FAILED"}
                   /\ task[r].task_id \in DOMAIN ocr_results

\* C5: once an error entry is stored under a task_id, the entry under that
\* task_id never changes.
C5_FailureTerminal ==
    [][\A k \in DOMAIN ocr_results :
          IsError(ocr_results[k])
              => (k \in DOMAIN ocr_results' /\ ocr_results'[k] = ocr_results[k])]_vars

\* C6: at most one background task, over all requests, is in PROCESSING.
C6_Serialized ==
    Cardinality({r \in Reqs : task[r].status = "PROCESSING"}) <= 1

\* C7 (as claimed): when the 202 response is still to be returned, the task of
\* that submission has not stored its entry.
C7_RespondsBeforeStore ==
    \A r \in Reqs : req[r].pc = "respond" => ~ Stored(r)

\* C7 (amended): the handler never waits for the task: once the task is
\* submitted the 202 response can be returned whatever the task's status, and
\* it is returned only after the task was submitted.
C7_ResponseNeverWaits ==
    \A r \in Reqs :
        /\ req[r].pc = "respond" => (task[r].status # "NONE" /\ ENABLED ocr_respond(r))
        /\ req[r].code = 202 => task[r].status # "NONE"

C7_Witness ==
    \E r \in Reqs : req[r].code = 202 /\ task[r].status = "PROCESSING"

\* the acceptance rule as the specification words it
HasAllowedExtension(filename) ==
    \E i \in 1..Len(filename) :
        /\ filename[i] = "."
        /\ \A j \in (i + 1)..Len(filename) : filename[j] # "."
        /\ lower(SubSeq(filename, i + 1, Len(filename))) \in
               {<<"j", "p", "g">>, <<"j", "p", "e", "g">>, <<"p", "n", "g">>}

Acceptable(q) == q.has_file /\ HasAllowedExtension(q.filename)

\* C8: POST /ocr accepts a request (file saved, one task started, 202) exactly
\* when a file part is present and its last extension, lowercased, is jpg, jpeg
\* or png; any other request is answered 400 at once, starts no task, gets no
\* task_id and leaves the result map (and the upload folder) unchanged.
C8_AcceptsExactly ==
    [][/\ Len(req') > Len(req) =>
            LET r == Len(req')
                q == req'[r]
            IN  IF Acceptable(q)
                THEN /\ q.code # 400
                     /\ q.file_path \in DOMAIN disk'
                     /\ disk'[q.file_path] = q.content
                ELSE /\ q.code = 400
                     /\ q.task_id = <<>>
                     /\ task'[r].status = "NONE"
                     /\ ocr_results' = ocr_results
                     /\ disk' = disk
       /\ \A r \in Reqs :
            (req'[r] # req[r] \/ task'[r] # task[r]) =>
                /\ req[r].code # 400
                /\ Acceptable(req'[r])
                /\ req'[r].code \in {0, 202}
                /\ req'[r].code = 202 => task'[r].status # "NONE"
                /\ task[r].status # "NONE" => task'[r].task_id = task[r].task_id]_vars

C8_Witness ==
    \E r1, r2 \in Reqs :
        /\ req[r1].filename = NameB /\ req[r1].code = 202 /\ task[r1].status # "NONE"
        /\ req[r2].filename = NameGif /\ req[r2].code = 400

ClassifierStep == todo # <<>> /\ todo' = Tail(todo)

HasDigit(line) == \E i \in 1..Len(line) : line[i] \in DigitChars

\* C9: a trimmed line with at least one digit, d its digits in order, appends
\* exactly d to the numeric fields when len(d) = 18, exactly format_date(d)
\* when len(d) >= 8 and len(d) /= 18, nothing when len(d) < 8, and never adds
\* to the text fields.
C9_NumericBranch ==
    [][ClassifierStep =>
        LET line == strip(Head(todo))
            d == SelectSeq(line, LAMBDA c : c \in DigitChars)
        IN  HasDigit(line) =>
              /\ lines_with_strings' = lines_with_strings
              /\ Len(d) = 18 => lines_with_numbers' = Append(lines_with_numbers, d)
              /\ (Len(d) >= 8 /\ Len(d) # 18) =>
                     lines_with_numbers' = Append(lines_with_numbers, format_date(d))
              /\ Len(d) < 8 => lines_with_numbers' = lines_with_numbers]_vars

C9_Witness ==
    /\ todo = <<>>
    /\ text_results = Date \o <<" ">> \o D8 \o <<NL>> \o D18
    /\ lines_with_numbers = <<SubSeq(D8, 1, 4) \o <<"/">> \o SubSeq(D8, 5, 6)
                                  \o <<"/">> \o SubSeq(D8, 7, 8), D18>>
    /\ lines_with_strings = <<>>

\* C10: a trimmed line without digits is appended to the text fields exactly
\* when its length is at least 3, it contains no stop phrase, and it is longer
\* than 3 characters or is the sex marker; otherwise it is dropped from both
\* lists.
C10_TextBranch ==
    [][ClassifierStep =>
        LET line == strip(Head(todo))
            kept == /\ Len(line) >= 3
                    /\ \A p \in 1..Len(filter_phrases) : ~ contains(line, filter_phrases[p])
                    /\ (Len(line) > 3 \/ line = <<"THAL", "KAF", "REH">>)
        IN  ~ HasDigit(line) =>
              /\ lines_with_numbers' = lines_with_numbers
              /\ lines_with_strings' =
                    IF kept THEN Append(lines_with_strings, line) ELSE lines_with_strings]_vars

C10_Witness ==
    /\ todo = <<>>
    /\ text_results = <<" ", " ">> \o SexMarker \o <<"\r", NL, "a", "b", "c">>
    /\ lines_with_strings = <<SexMarker>>
    /\ lines_with_numbers = <<>>

\* C11: format_date(s) is the first four characters, "/", the next two, "/",
\* the last two when s is exactly 8 characters that are all digits, and s
\* itself for every other s.
C11_FormatDate ==
    applied = 1 =>
        LET s == date_in IN
        IF Len(s) = 8 /\ \A i \in 1..8 : s[i] \in DigitChars
        THEN date_out = <<s[1], s[2], s[3], s[4], "/", s[5], s[6], "/", s[7], s[8]>>
        ELSE date_out = s

C11_Witness ==
    /\ applied = 1
    /\ date_in = D8
    /\ date_out = <<"1", "9", "9", "0", "/", "0", "1", "/", "0", "1">>

\* C12: a second application of format_date returns what the first returned.
C12_Idempotent ==
    [][(applied = 1 /\ applied' = 2) => date_out' = date_out]_vars

C12_Witness ==
    /\ applied = 2
    /\ date_in = D12345678
    /\ date_out = <<"1", "2", "3", "4", "/", "5", "6", "/", "7", "8">>

\* C13: a task that is over has written ocr_results once: an error entry
\* without a call of the OCR engine or the classifier when decoding failed, an
\* error entry without the classifier when the OCR call raised, and the two
\* field lists in every other case.
C13_OneEntryOnce ==
    \A r \in Reqs :
        task[r].at = "end" =>
            /\ task[r].stores = 1
            /\ IF ~ task[r].img.decodable
               THEN task[r].status = "FAILED" /\ ~ task[r].ocr_called /\ ~ task[r].classified
               ELSE IF task[r].ocr_called /\ task[r].img.raises
               THEN task[r].status = "FAILED" /\ ~ task[r].classified
               ELSE task[r].status = "COMPLETED" /\ task[r].classified

\* C14: a task moves only along SUBMITTED -> PROCESSING -> COMPLETED or FAILED,
\* writes its result only once a worker has picked it up, has written it exactly
\* once when it is over, and never leaves COMPLETED or FAILED.
C14_Lifecycle ==
    [][\A r \in Reqs :
          task'[r] # task[r] =>
              /\ <<task[r].status, task'[r].status>> \in
                    {<<"NONE", "SUBMITTED">>, <<"SUBMITTED", "PROCESSING">>,
                     <<"PROCESSING", "PROCESSING">>,
                     <<"PROCESSING", "COMPLETED">>, <<"PROCESSING", "FAILED">>}
              /\ task'[r].stores \in {task[r].stores, task[r].stores + 1}
              /\ task'[r].stores > task[r].stores => task[r].status = "PROCESSING"
              /\ task'[r].at = "end" => task'[r].stores = 1]_vars

\* C15: each line of the OCR text adds at most one entry, to at most one of
\* the two lists, and always at the end of the list, so that each list keeps
\* the order of the lines.
C15_OrderedLists ==
    [][ClassifierStep =>
          /\ Len(lines_with_numbers') + Len(lines_with_strings')
                 <= Len(lines_with_numbers) + Len(lines_with_strings) + 1
          /\ Len(lines_with_numbers') >= Len(lines_with_numbers)
          /\ Len(lines_with_strings') >= Len(lines_with_strings)
          /\ SubSeq(lines_with_numbers', 1, Len(lines_with_numbers)) = lines_with_numbers
          /\ SubSeq(lines_with_strings', 1, Len(lines_with_strings)) = lines_with_strings]_vars

C15_Witness ==
    /\ todo = <<>>
    /\ text_results = D18 \o <<NL>> \o D8
    /\ lines_with_numbers = <<D18, <<"1", "9", "9", "0", "/", "0", "1", "/", "0", "1">>>>
    /\ lines_with_strings = <<>>

\* C16: a task that has read its image has read the content uploaded by its
\* own submission.
C16_ReadsOwnUpload ==
    \A r \in Reqs :
        task[r].at \in {"preprocess", "end"} => task[r].img = req[r].content

\* C17: the keys of ocr_results are exactly the decimal strings "1".."n", keys
\* are never removed, n is at most the number of accepted submissions, and a
\* task_id issued is at most one more than the number of keys stored then.
C17_Keys ==
    [][(ocr_results' # ocr_results \/ req' # req) =>
          LET n == Cardinality(DOMAIN ocr_results')
              IdsUpTo(k) == {str(i) : i \in 1..k}
          IN  /\ DOMAIN ocr_results' = IdsUpTo(n)
              /\ DOMAIN ocr_results \subseteq DOMAIN ocr_results'
              /\ n <= Cardinality({r \in 1..Len(req') : req'[r].code # 400})
              /\ \A r \in Reqs :
                    (req[r].task_id = <<>> /\ req'[r].task_id # <<>>) =>
                        req'[r].task_id \in IdsUpTo(Cardinality(DOMAIN ocr_results) + 1)]_vars

C17_Witness ==
    /\ DOMAIN ocr_results = {<<"1">>, <<"2">>}
    /\ \E r \in Reqs : req[r].task_id = <<"2">>

====
